---- MODULE Spec2Model ----
(***************************************************************************)
(* Model of DesignCubeApp/app.js: the in-memory products and sales         *)
(* collections, their localStorage mirror, the dashboard summary and the   *)
(* sale-entry loop of prepareNewSales.                                     *)
(*                                                                         *)
(* JavaScript values are tagged records [t, n, s]: numbers, NaN,           *)
(* undefined (also an absent object field), null and strings (sequences    *)
(* of one-character strings, so that Number() can parse them).             *)
(*                                                                         *)
(* prepareNewSales blocks at its dialogs; a step of the model runs from    *)
(* one dialog to the next: SaleEntry from the serial prompt to the         *)
(* confirm, ConfirmAnswer from the confirm to the next prompt or through   *)
(* the code after the loop.  The page's other handlers cannot run while a  *)
(* dialog is open.                                                         *)
(*                                                                         *)
(* A product carries the fields the modelled code reads (serial, type,     *)
(* name, pricePerBox, stock); brand, size, numBoxes and numPieces are only *)
(* copied into table rows.  The table bodies are written and never read,   *)
(* so only the dashboard's texts and the visible section are kept.         *)
(***************************************************************************)
EXTENDS Integers, Sequences, FiniteSets, TLC

\* ------------------------------------------------------------ bounds ----
\* most sales recorded in one behaviour
MaxSales == 2

\* most flushes in one behaviour in which a localStorage.setItem call throws
MaxWriteFailures == 1

\* --------------------------------------------------------- JS values ----
Num(k) == [t |-> "num", n |-> k, s |-> <<>>]
NaN == [t |-> "nan", n |-> 0, s |-> <<>>]
Undefined == [t |-> "undef", n |-> 0, s |-> <<>>]
Null == [t |-> "null", n |-> 0, s |-> <<>>]
Str(chars) == [t |-> "str", n |-> 0, s |-> chars]

IsNum(x) == x.t = "num"

Digits == <<"0", "1", "2", "3", "4", "5", "6", "7", "8", "9">>

IsDigit(c) == \E d \in 1..10 : Digits[d] = c

DigitVal(c) == (CHOOSE d \in 1..10 : Digits[d] = c) - 1

RECURSIVE DigitsVal(_)
DigitsVal(cs) ==
  IF cs = <<>> THEN 0
  ELSE 10 * DigitsVal(SubSeq(cs, 1, Len(cs) - 1)) + DigitVal(cs[Len(cs)])

AllDigits(cs) == cs # <<>> /\ \A i \in 1..Len(cs) : IsDigit(cs[i])

\* Number(x) on the inputs a prompt can give: null -> 0, "" -> 0, an
\* optionally signed run of decimal digits -> its value, other text -> NaN.
Number(x) ==
  IF x.t = "num" \/ x.t = "nan" THEN x
  ELSE IF x.t = "null" THEN Num(0)
  ELSE IF x.t = "undef" THEN NaN
  ELSE IF x.s = <<>> THEN Num(0)
  ELSE IF AllDigits(x.s) THEN Num(DigitsVal(x.s))
  ELSE IF x.s[1] = "-" /\ AllDigits(Tail(x.s)) THEN Num(0 - DigitsVal(Tail(x.s)))
  ELSE IF x.s[1] = "+" /\ AllDigits(Tail(x.s)) THEN Num(DigitsVal(Tail(x.s)))
  ELSE NaN

Truthy(x) == (x.t = "num" /\ x.n # 0) \/ (x.t = "str" /\ x.s # <<>>)

\* x || y
JsOr(x, y) == IF Truthy(x) THEN x ELSE y

\* a > b on non-string operands: both converted to numbers, NaN compares false
JsGt(a, b) ==
  LET x == Number(a)
      y == Number(b)
  IN IsNum(x) /\ IsNum(y) /\ x.n > y.n

\* a <= b, same conversion
JsLe(a, b) ==
  LET x == Number(a)
      y == Number(b)
  IN IsNum(x) /\ IsNum(y) /\ x.n <= y.n

JsSub(a, b) ==
  LET x == Number(a)
      y == Number(b)
  IN IF IsNum(x) /\ IsNum(y) THEN Num(x.n - y.n) ELSE NaN

JsMul(a, b) ==
  LET x == Number(a)
      y == Number(b)
  IN IF IsNum(x) /\ IsNum(y) THEN Num(x.n * y.n) ELSE NaN

\* a + b on numeric operands
JsAdd(a, b) ==
  LET x == Number(a)
      y == Number(b)
  IN IF IsNum(x) /\ IsNum(y) THEN Num(x.n + y.n) ELSE NaN

\* a === b
StrictEq(a, b) == a.t = b.t /\ a.t # "nan" /\ a.n = b.n /\ a.s = b.s

\* total.toFixed(2) of a number with no fractional part: sign, integer
\* digits and the two decimals
ToFixed2(x) == [neg |-> x.n < 0, int |-> IF x.n < 0 THEN 0 - x.n ELSE x.n, frac |-> "00"]

\* ------------------------------------------------- program constants ----
LowStockLimit == 5

\* section ids passed to showSection: the dashboard and a sales page
SectionIds == {"dashboard", "sales"}

\* ------------------------------------------------------------ inputs ----
T1 == Str(<<"T", "1">>)
S1 == Str(<<"S", "1">>)

\* what the serial prompt can return: cancel (null), a known serial, an unknown one
SerialInputs == {Null, T1, S1, Str(<<"X", "9">>)}

\* what the quantity prompt can return: cancel (null), digits, signed digits, other text
QuantityInputs == {Null, Str(<<"1">>), Str(<<"-", "1">>), Str(<<"7">>), Str(<<"a", "b">>)}

\* new Date().toLocaleDateString()
Dates == {Str(<<"1", "/", "2">>)}

\* outcome of the two localStorage.setItem calls: both succeed, the first
\* throws (quota exceeded), or the second throws
WriteOutcomes == {"ok", "failProducts", "failSales"}

\* products as the import mechanism leaves them in the store; stock and
\* pricePerBox may be missing
Catalog(stockT, stockS) ==
  << [serial |-> T1, type |-> Str(<<"T", "i", "l", "e">>), name |-> Str(<<"A">>),
      pricePerBox |-> Num(200), stock |-> stockT],
     [serial |-> S1, type |-> Str(<<"s", "a", "n", "i", "t", "a", "r", "y">>), name |-> Str(<<"B">>),
      pricePerBox |-> Undefined, stock |-> stockS] >>

Catalogs == {Catalog(Num(6), Undefined)}

\* ------------------------------------------------------------- state ----
VARIABLES
  products,      \* let products
  sales,         \* let sales
  store,         \* localStorage: [products, sales], each a blob
  section,       \* id of the section whose display is 'block'
  dashboard,     \* text shown by the dashboard elements
  pc,            \* "idle"; "prompt": prepareNewSales is waiting at its serial prompt;
                 \* "confirm": it is waiting at the confirm that ends an iteration;
                 \* "load": the page is about to run its script; "crashed": the script threw
  serial,        \* prepareNewSales: const serial of the iteration waiting at its confirm
  quantity,      \* prepareNewSales: const quantity of that iteration
  dialog,        \* what that iteration told the user: "alert" (invalid), "recorded"; else "none"
  initProducts,  \* history: products as first loaded
  writeFailures  \* history: number of flushes in which setItem threw

vars == <<products, sales, store, section, dashboard, pc, serial, quantity, dialog, initProducts, writeFailures>>

\* --------------------------------------------------------- JSON blobs ----
Absent == [kind |-> "absent", val |-> <<>>]
Malformed == [kind |-> "malformed", val |-> <<>>]

\* JSON.stringify of one field value: NaN is written as null; an undefined
\* field is omitted, which reads back as undefined
JsonValue(x) == IF x.t = "nan" THEN Null ELSE x

\* JSON.stringify(collection)
Stringify(coll) ==
  [kind |-> "json",
   val |-> [i \in 1..Len(coll) |-> [f \in DOMAIN coll[i] |-> JsonValue(coll[i][f])]]]

\* JSON.parse(localStorage.getItem(key)) || [] ; defined when the blob parses
ParseOrEmpty(blob) == IF blob.kind = "json" THEN blob.val ELSE <<>>

\* JSON.parse throws a SyntaxError on the blob
ParseThrows(blob) == blob.kind = "malformed"

\* ---------------------------------------------------------- dashboard ----
RECURSIVE ReduceStock(_, _)
\* products.reduce((sum, p) => sum + (p.stock || 0), 0)
ReduceStock(ps, sum) ==
  IF ps = <<>> THEN sum
  ELSE ReduceStock(Tail(ps), JsAdd(sum, JsOr(Head(ps).stock, Num(0))))

RECURSIVE ReduceTotal(_, _)
\* sales.reduce((sum, s) => sum + (s.total || 0), 0)
ReduceTotal(ss, sum) ==
  IF ss = <<>> THEN sum
  ELSE ReduceTotal(Tail(ss), JsAdd(sum, JsOr(Head(ss).total, Num(0))))

\* variant: the limit itself is not low stock (< instead of <=)
IsLowStock_Strict(p) == JsLe(JsOr(p.stock, Num(0)), Num(LowStockLimit - 1))

\* (p.stock || 0) <= 5
IsLowStock(p) == JsLe(JsOr(p.stock, Num(0)), Num(LowStockLimit))

RECURSIVE LowStockItems(_)
\* products.filter(p => (p.stock || 0) <= 5) mapped to the <li> texts
LowStockItems(ps) ==
  IF ps = <<>> THEN <<>>
  ELSE LET p == Head(ps)
           rest == LowStockItems(Tail(ps))
       IN IF IsLowStock(p)
          THEN <<[name |-> p.name, stock |-> JsOr(p.stock, Num(0))]>> \o rest
          ELSE rest

\* what updateDashboard writes into the four dashboard elements
UpdateDashboard(ps, ss) ==
  [totalProducts |-> Len(ps),
   totalStock |-> ReduceStock(ps, Num(0)).n,
   totalSales |-> ToFixed2(ReduceTotal(ss, Num(0))),
   lowStock |-> LowStockItems(ps)]

\* s.total.toFixed(2) throws a TypeError when some sale's total is null or undefined
RenderSalesThrows(ss) == \E i \in 1..Len(ss) : ss[i].total.t \in {"null", "undef"}

\* ------------------------------------------------------------- init ----
EmptyDashboard == [totalProducts |-> 0, totalStock |-> 0, totalSales |-> ToFixed2(Num(0)), lowStock |-> <<>>]

\* the page after its script has run on a store that holds an imported
\* catalogue and no sales yet
Init ==
  \E c \in Catalogs :
    /\ store = [products |-> Stringify(c), sales |-> Absent]
    /\ products = ParseOrEmpty(store.products)
    /\ sales = ParseOrEmpty(store.sales)
    /\ section = "dashboard"
    /\ dashboard = UpdateDashboard(products, sales)
    /\ pc = "idle"
    /\ serial = Undefined
    /\ quantity = Undefined
    /\ dialog = "none"
    /\ initProducts = products
    /\ writeFailures = 0

\* ----------------------------------------------------------- actions ----
\* showSection(id), called from the navigation while no dialog is open
ShowSection(id) ==
  /\ pc = "idle"
  /\ section' = id
  /\ dashboard' = IF id = "dashboard" THEN UpdateDashboard(products, sales) ELSE dashboard
  /\ UNCHANGED <<products, sales, store, pc, serial, quantity, dialog, initProducts, writeFailures>>

\* prepareNewSales(type) up to its first prompt
PrepareNewSales(type) ==
  /\ pc = "idle"
  /\ pc' = "prompt"
  /\ UNCHANGED <<products, sales, store, section, dashboard, serial, quantity, dialog,
                 initProducts, writeFailures>>

\* products.find(p => p.serial === serial): index of the first match, 0 if none
Find(ps, ser) ==
  IF \E i \in 1..Len(ps) : StrictEq(ps[i].serial, ser)
  THEN CHOOSE i \in 1..Len(ps) :
         /\ StrictEq(ps[i].serial, ser)
         /\ \A j \in 1..(i - 1) : ~StrictEq(ps[j].serial, ser)
  ELSE 0

\* variant: only the serial is checked, not the stock
Rejects_IgnoresStock(ps, ser, qty) == Find(ps, ser) = 0

\* !product || quantity > product.stock
Rejects(ps, ser, qty) ==
  LET i == Find(ps, ser)
  IN i = 0 \/ JsGt(qty, ps[i].stock)

\* product.stock -= quantity
SellStock(ps, ser, qty) ==
  LET i == Find(ps, ser)
  IN [ps EXCEPT ![i].stock = JsSub(@, qty)]

\* variant: the price is used without its || 0 default
SaleRecord_NoPriceDefault(ps, ser, qty, date) ==
  LET product == ps[Find(ps, ser)]
  IN [serial |-> ser, name |-> product.name, quantity |-> qty,
      total |-> JsMul(product.pricePerBox, qty),
      date |-> date, type |-> product.type]

\* { serial, name: product.name, quantity, total, date, type: product.type }
SaleRecord(ps, ser, qty, date) ==
  LET product == ps[Find(ps, ser)]
  IN [serial |-> ser, name |-> product.name, quantity |-> qty,
      total |-> JsMul(JsOr(product.pricePerBox, Num(0)), qty),
      date |-> date, type |-> product.type]

\* variant: the record is put in front (unshift instead of push)
RecordSale_Unshift(ss, rec) == <<rec>> \o ss

\* sales.push(record)
RecordSale(ss, rec) == Append(ss, rec)

\* the two setItem calls after the loop
FlushStore(st, ps, ss, w) ==
  IF w = "ok" THEN [products |-> Stringify(ps), sales |-> Stringify(ss)]
  ELSE IF w = "failSales" THEN [products |-> Stringify(ps), sales |-> st.sales]
  ELSE st

\* the loop has ended: save, then renderSalesTabs, renderSalesHistoryTable, updateDashboard
FinishSales(w) ==
  /\ store' = FlushStore(store, products, sales, w)
  /\ dashboard' = IF w = "ok" /\ ~RenderSalesThrows(sales)
                  THEN UpdateDashboard(products, sales) ELSE dashboard
  /\ IF w = "ok"
     THEN writeFailures' = writeFailures
     ELSE /\ writeFailures < MaxWriteFailures
          /\ writeFailures' = writeFailures + 1
  /\ pc' = "idle"

\* one iteration of the while loop up to its confirm: both prompts, the check,
\* and either the alert or the stock update and the new sale
SaleEntry(serialIn, quantityIn, date) ==
  /\ pc = "prompt"
  /\ serial' = serialIn
  /\ quantity' = Number(quantityIn)
  /\ IF Rejects(products, serial', quantity')
     THEN /\ dialog' = "alert"
          /\ UNCHANGED <<products, sales>>
     ELSE /\ Len(sales) < MaxSales
          /\ products' = SellStock(products, serial', quantity')
          /\ sales' = RecordSale(sales, SaleRecord(products, serial', quantity', date))
          /\ dialog' = "recorded"
  /\ pc' = "confirm"
  /\ UNCHANGED <<store, section, dashboard, initProducts, writeFailures>>

\* the answer to the confirm: the next iteration, or the code after the loop
ConfirmAnswer(more, w) ==
  /\ pc = "confirm"
  /\ serial' = Undefined
  /\ quantity' = Undefined
  /\ dialog' = "none"
  /\ IF more
     THEN /\ w = "ok"
          /\ pc' = "prompt"
          /\ UNCHANGED <<store, dashboard, writeFailures>>
     ELSE FinishSales(w)
  /\ UNCHANGED <<products, sales, section, initProducts>>

Next ==
  \/ \E id \in SectionIds : ShowSection(id)
  \/ \E type \in {"tile", "sanitary", "others"} : PrepareNewSales(type)
  \/ \E serialIn \in SerialInputs, quantityIn \in QuantityInputs, date \in Dates :
       SaleEntry(serialIn, quantityIn, date)
  \/ \E more \in BOOLEAN, w \in WriteOutcomes : ConfirmAnswer(more, w)

Spec == Init /\ [][Next]_vars

\* the user answers the quantity prompt with positive whole numbers only
NumericQuantityInputs == {Str(<<"1">>), Str(<<"7">>)}

NextNumeric ==
  \/ \E id \in SectionIds : ShowSection(id)
  \/ \E type \in {"tile", "sanitary", "others"} : PrepareNewSales(type)
  \/ \E serialIn \in SerialInputs, quantityIn \in NumericQuantityInputs, date \in Dates :
       SaleEntry(serialIn, quantityIn, date)
  \/ \E more \in BOOLEAN, w \in WriteOutcomes : ConfirmAnswer(more, w)

SpecNumeric == Init /\ [][NextNumeric]_vars

\* --------------------------------------------------- loading the page ----
\* blobs the store can hold under a key before the script runs
ProductBlobs == {Absent, Malformed, Stringify(Catalog(Num(6), Num(3)))}

SalesBlobs == {Absent, Malformed}

\* the page is about to run the script; products and sales are not set yet
InitBoot ==
  /\ store \in [products : ProductBlobs, sales : SalesBlobs]
  /\ products = <<>>
  /\ sales = <<>>
  /\ section = "none"
  /\ dashboard = EmptyDashboard
  /\ pc = "load"
  /\ serial = Undefined
  /\ quantity = Undefined
  /\ dialog = "none"
  /\ initProducts = ParseOrEmpty(store.products)
  /\ writeFailures = 0

\* the script: the two let statements, then showSection('dashboard')
Load ==
  /\ pc = "load"
  /\ IF ParseThrows(store.products)
     THEN /\ pc' = "crashed"
          /\ UNCHANGED <<products, sales, section, dashboard>>
     ELSE IF ParseThrows(store.sales)
     THEN /\ pc' = "crashed"
          /\ products' = ParseOrEmpty(store.products)
          /\ UNCHANGED <<sales, section, dashboard>>
     ELSE /\ products' = ParseOrEmpty(store.products)
          /\ sales' = ParseOrEmpty(store.sales)
          /\ section' = "dashboard"
          /\ dashboard' = UpdateDashboard(products', sales')
          /\ pc' = "idle"
  /\ UNCHANGED <<store, serial, quantity, dialog, initProducts, writeFailures>>

\* the user reloads the page; until the script runs again products and sales
\* keep the values of the page that is going away
Reload ==
  /\ pc \in {"idle", "crashed"}
  /\ pc' = "load"
  /\ UNCHANGED <<products, sales, store, section, dashboard, serial, quantity, dialog,
                 initProducts, writeFailures>>

\* entries made on the reloaded page: a whole number or other text, for one product
BootSerialInputs == {T1, S1}

BootQuantityInputs == {Str(<<"1">>), Str(<<"a", "b">>)}

NextBoot ==
  \/ Load
  \/ Reload
  \/ \E id \in SectionIds : ShowSection(id)
  \/ \E type \in {"tile", "sanitary", "others"} : PrepareNewSales(type)
  \/ \E serialIn \in BootSerialInputs, quantityIn \in BootQuantityInputs, date \in Dates :
       SaleEntry(serialIn, quantityIn, date)
  \/ \E more \in BOOLEAN, w \in WriteOutcomes : ConfirmAnswer(more, w)

SpecBoot == InitBoot /\ [][NextBoot]_vars


\* ======================================================== properties ====
\* Helpers of the properties; they restate the specification's terms and do
\* not use the operators that model the code's arithmetic.

\* a field that holds a number; a missing field counts as 0
ValueOf(x) == IF IsNum(x) THEN x.n ELSE 0

IsPrefix(a, b) == Len(a) <= Len(b) /\ SubSeq(b, 1, Len(a)) = a

RECURSIVE SoldQuantity(_, _)
\* sum of the quantities of the sales recorded for serial ser
SoldQuantity(ss, ser) ==
  IF ss = <<>> THEN 0
  ELSE SoldQuantity(Tail(ss), ser) + (IF Head(ss).serial = ser THEN ValueOf(Head(ss).quantity) ELSE 0)

\* every sale recorded for serial ser has a number as its quantity
QuantitiesAreNumbers(ss, ser) == \A i \in 1..Len(ss) : ss[i].serial = ser => IsNum(ss[i].quantity)

\* the entry's precondition fails: unknown serial, or the quantity q exceeds the stock
PreconditionFails(ps, s, q) ==
  \/ \A i \in 1..Len(ps) : ps[i].serial # s
  \/ \E i \in 1..Len(ps) :
       /\ ps[i].serial = s
       /\ IsNum(q)
       /\ IsNum(ps[i].stock)
       /\ q.n > ps[i].stock.n

\* the step is one loop iteration, from its prompts to its confirm
EntryStep == pc = "prompt" /\ pc' = "confirm"

\* C1: every product's stock is its initial stock minus the quantities sold
\* for its serial, and is never negative (stated for the products that have
\* an initial stock).
C1_StockLedger ==
  \A i \in 1..Len(products) :
    IsNum(initProducts[i].stock) =>
      /\ IsNum(products[i].stock)
      /\ QuantitiesAreNumbers(sales, products[i].serial)
      /\ products[i].stock.n = initProducts[i].stock.n - SoldQuantity(sales, products[i].serial)
      /\ products[i].stock.n >= 0

\* C2: every recorded sale has a quantity >= 1 (an entry with a zero or
\* negative quantity is rejected).
C2_QuantityPositive ==
  \A i \in 1..Len(sales) : IsNum(sales[i].quantity) /\ sales[i].quantity.n >= 1

\* C3: an entry whose precondition fails (unknown serial, or quantity above
\* the product's stock) leaves products and sales as they were, so the sales
\* of earlier entries are kept.
C3_RejectedEntryChangesNothing ==
  [][(EntryStep /\ PreconditionFails(products, serial', quantity'))
       => (products' = products /\ sales' = sales)]_vars

\* an entry asking for more than the stock has just been turned down, after a
\* sale was recorded
C3_Witness ==
  /\ pc = "confirm" /\ dialog = "alert" /\ Len(sales) >= 1
  /\ serial = T1 /\ quantity = Num(7)

\* the arithmetic of C4 on numbers; not-a-number when an operand is not a number
ExpectedStock(stock, q) ==
  IF IsNum(stock) /\ IsNum(q) THEN Num(stock.n - q.n) ELSE NaN

ExpectedTotal(price, q) ==
  IF IsNum(q) THEN Num(q.n * ValueOf(price)) ELSE NaN

\* C4: an accepted entry (s, q) subtracts q from the stock of the product
\* with serial s only, and appends one record with serial s, quantity q, the
\* product's name and type, and total q times the price (price 0 if missing).
C4_AcceptedEntryEffect ==
  [][(EntryStep /\ ~PreconditionFails(products, serial', quantity')) =>
       \E i \in 1..Len(products) :
         /\ products[i].serial = serial'
         /\ Len(products') = Len(products)
         /\ \A j \in 1..Len(products) :
              products'[j] = IF j = i
                             THEN [products[i] EXCEPT !.stock = ExpectedStock(products[i].stock, quantity')]
                             ELSE products[j]
         /\ Len(sales') = Len(sales) + 1
         /\ SubSeq(sales', 1, Len(sales)) = sales
         /\ LET r == sales'[Len(sales')]
            IN /\ r.serial = serial'
               /\ r.quantity = quantity'
               /\ r.name = products[i].name
               /\ r.type = products[i].type
               /\ r.total = ExpectedTotal(products[i].pricePerBox, quantity')]_vars

\* a sale of one unit of the product without a price has just been recorded,
\* after a sale of the priced product
C4_Witness ==
  /\ pc = "confirm" /\ dialog = "recorded" /\ Len(sales) = 2
  /\ sales[1].serial = T1 /\ sales[1].total = Num(200)
  /\ serial = S1 /\ quantity = Num(1)
  /\ sales[2].serial = S1 /\ sales[2].quantity = Num(1) /\ sales[2].total = Num(0)

\* C5: after each recorded sale, when the loop goes on to read the next
\* entry, the store holds the in-memory products and sales.
C5_StoreMirrorsMemory ==
  [][(pc = "confirm" /\ dialog = "recorded" /\ pc' = "prompt")
       => store' = [products |-> Stringify(products'), sales |-> Stringify(sales')]]_vars

\* C6: loading the page from a store that holds the flushed collections
\* gives back exactly those collections.
C6_RoundTrip ==
  [][(/\ pc = "load"
      /\ pc' = "idle"
      /\ store = [products |-> Stringify(products), sales |-> Stringify(sales)])
       => (products' = products /\ sales' = sales)]_vars

\* C7: running the script always ends with the page started: a key without a
\* blob, or with a malformed blob, gives an empty collection.
C7_InitializationNeverFails ==
  [][pc = "load" =>
       /\ pc' = "idle"
       /\ store.products.kind # "json" => products' = <<>>
       /\ store.sales.kind # "json" => sales' = <<>>]_vars

\* C8: sales only grows at its end: the sales of a state are a prefix of the
\* sales of the next state, and only a loop iteration adds a record, one at a time.
C8_SalesAppendOnly ==
  [][/\ IsPrefix(sales, sales')
     /\ sales' # sales => (EntryStep /\ dialog' = "recorded" /\ Len(sales') = Len(sales) + 1)]_vars

\* two different sales are recorded and the sales page has been shown since
C8_Witness ==
  /\ Len(sales) = 2 /\ sales[1] # sales[2]
  /\ pc = "idle" /\ section = "sales"

RECURSIVE RefStockSum(_, _)
\* sum of stock over the first k products, missing stock counted as 0
RefStockSum(ps, k) == IF k = 0 THEN 0 ELSE RefStockSum(ps, k - 1) + ValueOf(ps[k].stock)

RECURSIVE RefTotalSum(_, _)
\* sum of total over the first k sales, missing total counted as 0
RefTotalSum(ss, k) == IF k = 0 THEN 0 ELSE RefTotalSum(ss, k - 1) + ValueOf(ss[k].total)

RECURSIVE RefLowStock(_, _)
\* the first k products whose stock (missing counted as 0) is at most 5, in order
RefLowStock(ps, k) ==
  IF k = 0 THEN <<>>
  ELSE IF ValueOf(ps[k].stock) <= 5
       THEN Append(RefLowStock(ps, k - 1), [name |-> ps[k].name, stock |-> Num(ValueOf(ps[k].stock))])
       ELSE RefLowStock(ps, k - 1)

RefSummary(ps, ss) ==
  [totalProducts |-> Cardinality(DOMAIN ps),
   totalStock |-> RefStockSum(ps, Len(ps)),
   totalSales |-> ToFixed2(Num(RefTotalSum(ss, Len(ss)))),
   lowStock |-> RefLowStock(ps, Len(ps))]

\* C9: what updateDashboard computes is the reference summary of the
\* current collections (count, stock sum, sales sum, products with stock <= 5,
\* a value that is not a number counted as 0); whenever the dashboard is
\* rewritten it shows that summary, and showing a section changes neither
\* collection.
C9_DashboardIsSummary ==
  /\ [](UpdateDashboard(products, sales) = RefSummary(products, sales))
  /\ [][/\ dashboard' # dashboard => dashboard' = RefSummary(products', sales')
        /\ (pc = "idle" /\ pc' = "idle") => (products' = products /\ sales' = sales)]_vars

\* the dashboard shows a product that has just reached stock 5 and one
\* without a stock field, with a sale counted in the total
C9_Witness ==
  /\ pc = "idle" /\ section = "dashboard"
  /\ products[1].stock = Num(5) /\ products[2].stock = Undefined
  /\ Len(sales) = 1
  /\ dashboard = RefSummary(products, sales)
  /\ Len(dashboard.lowStock) = 2
  /\ dashboard.totalSales = [neg |-> FALSE, int |-> 200, frac |-> "00"]

\* C10: the two blobs of the store always agree: for every product the
\* stored stock plus the stored sales' quantities for its serial is the
\* product's initial stock (stated for the products that have an initial stock).
C10_StoreConsistent ==
  LET ps == ParseOrEmpty(store.products)
      ss == ParseOrEmpty(store.sales)
  IN \A i \in 1..Len(ps) :
       IsNum(initProducts[i].stock) =>
         /\ IsNum(ps[i].stock)
         /\ QuantitiesAreNumbers(ss, ps[i].serial)
         /\ ps[i].stock.n + SoldQuantity(ss, ps[i].serial) = initProducts[i].stock.n

====
